---- MODULE Spec2Model ----
(***************************************************************************)
(* MyFinance-Manager: a menu-driven personal finance tracker on SQLite.    *)
(* The model keeps the six tables as sequences of rows in rowid order, and *)
(* one action per handler of ExpenseManager, IncomeManager, BudgetManager  *)
(* and GoalManager. The loops of MainMenu are a function from the loop and *)
(* the choice to the next loop; SpecMenu walks them one choice at a time.  *)
(*                                                                         *)
(* Text is modelled as a sequence of one-character strings, so that        *)
(* str.strip(), datetime.strptime(), SQLite strftime() and SUBSTR() are    *)
(* computed on the characters and are not identities.                      *)
(* Amounts are whole currency units (the code uses float / REAL).          *)
(***************************************************************************)
EXTENDS Integers, Sequences, FiniteSets, TLC

VARIABLES
    expense_categories,   \* rows <<id, name>> of table expense_categories
    expense_cat_seq,      \* AUTOINCREMENT high-water mark of that table
    income_categories,    \* rows of table income_categories
    income_cat_seq,       \* AUTOINCREMENT high-water mark of that table
    expenses,             \* rows of table expenses
    income,               \* rows of table income
    savings_goals,        \* rows of table savings_goals
    budget,               \* rows of table budget
    msg,                  \* last status line printed by a handler
    menu                  \* the menu loop that reads the next choice

catVars    == <<expense_categories, expense_cat_seq, income_categories, income_cat_seq>>
ledgerVars == <<expenses, income>>
vars == <<expense_categories, expense_cat_seq, income_categories, income_cat_seq,
          expenses, income, savings_goals, budget, msg, menu>>

----------------------------------------------------------------------------
(* Bounds of the model                                                     *)

MaxGoals == 2
MaxIncomeRows == 1
MaxExpenseRows == 1
MaxSaved == 2
MaxEntries == 3
MaxCatId == 2
MaxLedgerRows == 2

----------------------------------------------------------------------------
(* Text helpers                                                            *)

DigitChars == <<"0", "1", "2", "3", "4", "5", "6", "7", "8", "9">>

DigitValue == [c \in {DigitChars[i] : i \in 1..10} |->
                  CHOOSE n \in 0..9 : DigitChars[n + 1] = c]

IsDigit(c) == c \in DOMAIN DigitValue

DigitVal(c) == DigitValue[c]

AllDigits(s) == \A i \in 1..Len(s) : IsDigit(s[i])

RECURSIVE NumVal(_)
NumVal(s) == IF Len(s) = 0 THEN 0
             ELSE 10 * NumVal(SubSeq(s, 1, Len(s) - 1)) + DigitVal(s[Len(s)])

\* str(n) for n >= 0
RECURSIVE str(_)
str(n) == IF n < 10 THEN <<DigitChars[n + 1]>>
          ELSE str(n \div 10) \o <<DigitChars[(n % 10) + 1]>>

\* f"{n:02d}" for n >= 0
fmt02d(n) == IF n < 10 THEN <<"0">> \o str(n) ELSE str(n)

\* SQL SUBSTR(s, start, len), 1-based, start >= 1
SUBSTR(s, start, n) ==
    SubSeq(s, start, IF start + n - 1 > Len(s) THEN Len(s) ELSE start + n - 1)

\* str.strip() for the blank character
RECURSIVE lstrip(_)
lstrip(s) == IF Len(s) > 0 /\ s[1] = " " THEN lstrip(Tail(s)) ELSE s

RECURSIVE rstrip(_)
rstrip(s) == IF Len(s) > 0 /\ s[Len(s)] = " "
             THEN rstrip(SubSeq(s, 1, Len(s) - 1)) ELSE s

strip(s) == rstrip(lstrip(s))

\* positions of "-" in s
Dashes(s) == {i \in 1..Len(s) : s[i] = "-"}

IsLeap(y) == (y % 4 = 0 /\ y % 100 # 0) \/ y % 400 = 0

DaysInMonth(y, m) ==
    IF m = 2 THEN (IF IsLeap(y) THEN 29 ELSE 28)
    ELSE IF m \in {4, 6, 9, 11} THEN 30 ELSE 31

\* The three fields of a text with exactly two dashes.
Field1(s) == LET d == CHOOSE i \in Dashes(s) : \A j \in Dashes(s) : i <= j
             IN SubSeq(s, 1, d - 1)
Field2(s) == LET d1 == CHOOSE i \in Dashes(s) : \A j \in Dashes(s) : i <= j
                 d2 == CHOOSE i \in Dashes(s) : \A j \in Dashes(s) : i >= j
             IN SubSeq(s, d1 + 1, d2 - 1)
Field3(s) == LET d == CHOOSE i \in Dashes(s) : \A j \in Dashes(s) : i >= j
             IN SubSeq(s, d + 1, Len(s))

\* datetime.strptime(s, '%Y-%m-%d') directive patterns:
\*   %Y  \d\d\d\d      %m  1[0-2]|0[1-9]|[1-9]
\*   %d  3[01]|[12]\d|0[1-9]|[1-9]| [1-9]
MatchY(f) == Len(f) = 4 /\ AllDigits(f)
MatchM(f) == /\ Len(f) \in {1, 2}
             /\ AllDigits(f)
             /\ NumVal(f) \in 1..12
MatchD(f) == \/ /\ Len(f) \in {1, 2}
                /\ AllDigits(f)
                /\ NumVal(f) \in 1..31
             \/ /\ Len(f) = 2
                /\ f[1] = " "
                /\ IsDigit(f[2])
                /\ DigitVal(f[2]) >= 1

DayVal(f) == IF f[1] = " " THEN DigitVal(f[2]) ELSE NumVal(f)

\* TRUE iff strptime returns a date (no ValueError)
strptime_ok(s) ==
    /\ Cardinality(Dashes(s)) = 2
    /\ MatchY(Field1(s))
    /\ MatchM(Field2(s))
    /\ MatchD(Field3(s))
    /\ NumVal(Field1(s)) >= 1
    /\ DayVal(Field3(s)) <= DaysInMonth(NumVal(Field1(s)), NumVal(Field2(s)))

\* the calendar date strptime returns, for a text it accepts
strptime_year(s)  == NumVal(Field1(s))
strptime_month(s) == NumVal(Field2(s))

\* SQLite date parsing (parseYyyyMmDd): exactly YYYY-MM-DD, month 01..12,
\* day 01..31; anything else makes strftime return NULL.
sqlite_date_ok(s) ==
    /\ Len(s) = 10
    /\ AllDigits(SubSeq(s, 1, 4))
    /\ s[5] = "-"
    /\ AllDigits(SubSeq(s, 6, 7))
    /\ s[8] = "-"
    /\ AllDigits(SubSeq(s, 9, 10))
    /\ NumVal(SubSeq(s, 6, 7)) \in 1..12
    /\ NumVal(SubSeq(s, 9, 10)) \in 1..31

NULL == <<"N", "U", "L", "L">>

\* strftime('%m', s) and strftime('%Y', s)
strftime_m(s) == IF sqlite_date_ok(s) THEN SubSeq(s, 6, 7) ELSE NULL
strftime_Y(s) == IF sqlite_date_ok(s) THEN SubSeq(s, 1, 4) ELSE NULL

----------------------------------------------------------------------------
(* Console input: int(input(...)) / float(input(...)) either yield a       *)
(* number or raise ValueError.                                             *)

Num(n) == [num |-> TRUE, v |-> n]
NotANumber == [num |-> FALSE, v |-> 0]

----------------------------------------------------------------------------
(* DatabaseManager                                                         *)

\* execute_query: run the statement and commit; an sqlite3.Error is caught
\* and printed, the statement then has no effect and the caller goes on.
execute_query(fail, before, after) == IF fail THEN before ELSE after

\* fetch_all: the rows of the SELECT, or [] after an sqlite3.Error
fetch_all(fail, rows) == IF fail THEN <<>> ELSE rows

RECURSIVE SUM_amount(_)
SUM_amount(rows) ==
    IF Len(rows) = 0 THEN 0 ELSE Head(rows).amount + SUM_amount(Tail(rows))

RECURSIVE SUM_current_saved(_)
SUM_current_saved(rows) ==
    IF Len(rows) = 0 THEN 0
    ELSE Head(rows).current_saved + SUM_current_saved(Tail(rows))

\* ... WHERE strftime('%m', timestamp) = ? AND strftime('%Y', timestamp) = ?
\* with parameters (f"{month:02d}", str(year))
where_period(rows, month, year) ==
    SelectSeq(rows, LAMBDA r : /\ strftime_m(r.timestamp) = fmt02d(month)
                               /\ strftime_Y(r.timestamp) = str(year))

\* UPDATE savings_goals SET current_saved = current_saved + ? WHERE id = ?
update_current_saved(rows, amt, id) ==
    [i \in 1..Len(rows) |->
        IF rows[i].id = id
        THEN [rows[i] EXCEPT !.current_saved = @ + amt]
        ELSE rows[i]]

\* the UPDATE of line 768 writing the column current_saved
update_target_amount_sets_saved(rows, amt, id) ==
    [i \in 1..Len(rows) |->
        IF rows[i].id = id THEN [rows[i] EXCEPT !.current_saved = amt]
        ELSE rows[i]]

\* UPDATE savings_goals SET target_amount = ? WHERE id = ?
update_target_amount(rows, amt, id) ==
    [i \in 1..Len(rows) |->
        IF rows[i].id = id THEN [rows[i] EXCEPT !.target_amount = amt]
        ELSE rows[i]]

goal_ids(rows) == {rows[i].id : i \in 1..Len(rows)}

goal_row(rows, id) == rows[CHOOSE i \in 1..Len(rows) : rows[i].id = id]

----------------------------------------------------------------------------
(* GoalManager. Each handler is an operator from the current tables and    *)
(* what is typed at its prompts to the tables it leaves and the last line  *)
(* it prints; the actions further down apply them.                         *)

create_goal(goal_name, target_amount, target_date, fail) ==
    IF ~target_amount.num
    THEN [savings_goals |-> savings_goals,
          msg |-> "Invalid target amount. Enter a number."]
    ELSE IF ~strptime_ok(target_date)
    THEN [savings_goals |-> savings_goals,
          msg |-> "Incorrect date format. Use YYYY-MM-DD."]
    ELSE [savings_goals |-> execute_query(fail, savings_goals,
                Append(savings_goals,
                       [id |-> Len(savings_goals) + 1,
                        goal_name |-> goal_name,
                        target_amount |-> target_amount.v,
                        current_saved |-> 0,
                        target_date |-> target_date])),
          msg |-> "Savings goal created successfully!"]

change_goal_amount(goal_id, new_amount, fail) ==
    IF Len(savings_goals) = 0
    THEN [savings_goals |-> savings_goals, msg |-> "No savings goals found."]
    ELSE IF ~goal_id.num \/ ~new_amount.num
    THEN [savings_goals |-> savings_goals,
          msg |-> "Invalid input. Enter valid numbers."]
    ELSE [savings_goals |-> execute_query(fail, savings_goals,
                update_target_amount(savings_goals, new_amount.v, goal_id.v)),
          msg |-> "Goal updated successfully!"]

\* available_excess = total_income - total_expenses - allocated_excess
available_excess(month, year) ==
    SUM_amount(where_period(income, month, year))
      - SUM_amount(where_period(expenses, month, year))
      - SUM_current_saved(savings_goals)

\* line 810 with < in place of <=
no_excess_strict(available) == available < 0

\* line 810: if available_excess <= 0
no_excess(available) == available <= 0

\* the prompt loop without the test of line 831
amount_accepted_no_upper_bound(amt, available) ==
    /\ amt.num
    /\ ~(amt.v < 0)

\* the test of one entered amount in the prompt loop of add_excess_income:
\* TRUE iff the loop reaches its else branch and breaks
amount_accepted(amt, available) ==
    /\ amt.num
    /\ ~(amt.v < 0)
    /\ ~(amt.v > available)

\* the for loop over goals with its inner while True loop: entries are the
\* amounts typed, in order; a refused entry prompts again for the same goal,
\* an accepted one breaks to the next goal. allocations is the dict in
\* insertion order, available the running available_excess. The handler
\* gets past the loops iff the last entry typed is the one accepted for the
\* last goal (ended).
RECURSIVE allocation_loop(_, _, _, _, _, _)
allocation_loop(goals, entries, k, j, available, allocations) ==
    IF k > Len(goals)
    THEN [ended |-> j > Len(entries), allocations |-> allocations,
          available |-> available]
    ELSE IF j > Len(entries)
    THEN [ended |-> FALSE, allocations |-> allocations, available |-> available]
    ELSE IF ~amount_accepted(entries[j], available)
    THEN allocation_loop(goals, entries, k, j + 1, available, allocations)
    ELSE IF entries[j].v > 0
    THEN allocation_loop(goals, entries, k + 1, j + 1, available - entries[j].v,
                         Append(allocations, <<goals[k].id, entries[j].v>>))
    ELSE allocation_loop(goals, entries, k + 1, j + 1, available, allocations)

\* the loop of line 840 leaving out the last allocation
RECURSIVE apply_allocations_but_last(_, _, _, _)
apply_allocations_but_last(rows, allocations, j, fails) ==
    IF j >= Len(allocations) THEN rows
    ELSE apply_allocations_but_last(
            execute_query(j \in fails, rows,
                update_current_saved(rows, allocations[j][2], allocations[j][1])),
            allocations, j + 1, fails)

\* for goal_id, amt in allocations.items(): one UPDATE each, fails names the
\* positions of the statements that raise sqlite3.Error
RECURSIVE apply_allocations(_, _, _, _)
apply_allocations(rows, allocations, j, fails) ==
    IF j > Len(allocations) THEN rows
    ELSE apply_allocations(
            execute_query(j \in fails, rows,
                update_current_saved(rows, allocations[j][2], allocations[j][1])),
            allocations, j + 1, fails)

\* returns is FALSE while the handler still waits at a prompt for the
\* entries given
add_excess_income(month, year, entries, fails) ==
    IF ~month.num \/ (month.v \in 1..12 /\ ~year.num)
    THEN [returns |-> TRUE, savings_goals |-> savings_goals,
          msg |-> "Invalid input. Enter valid numbers for month and year."]
    ELSE IF ~(month.v \in 1..12)
    THEN [returns |-> TRUE, savings_goals |-> savings_goals,
          msg |-> "Month must be between 1 and 12."]
    ELSE IF year.v <= 0
    THEN [returns |-> TRUE, savings_goals |-> savings_goals,
          msg |-> "Year must be positive."]
    ELSE LET excess == available_excess(month.v, year.v)
         IN IF no_excess(excess)
            THEN [returns |-> TRUE, savings_goals |-> savings_goals,
                  msg |-> "No excess income available for savings."]
            ELSE IF Len(savings_goals) = 0
            THEN [returns |-> TRUE, savings_goals |-> savings_goals,
                  msg |-> "No savings goals found. Create one first."]
            ELSE LET run == allocation_loop(savings_goals, entries, 1, 1,
                                            excess, <<>>)
                 IN [returns |-> run.ended,
                     savings_goals |-> apply_allocations(savings_goals,
                                           run.allocations, 1, fails),
                     msg |-> "Savings updated successfully!"]

\* the bound of line 876 taken one too high
exceeds_saved_off_by_one(amt, current_saved) == amt > current_saved + 1

\* line 876: if amt > current_saved
exceeds_saved(amt, current_saved) == amt > current_saved

\* the debit of line 903 given the id of the credited goal
transfer_updates_wrong_debit(rows, amt, goal_id, new_goal_id, fails) ==
    LET credited == execute_query(1 \in fails, rows,
                        update_current_saved(rows, amt, new_goal_id))
    IN execute_query(2 \in fails, credited,
                     update_current_saved(credited, 0 - amt, new_goal_id))

\* lines 898-903: credit new_goal_id, then debit goal_id, each statement
\* executed and committed on its own
transfer_updates(rows, amt, goal_id, new_goal_id, fails) ==
    LET credited == execute_query(1 \in fails, rows,
                        update_current_saved(rows, amt, new_goal_id))
    IN execute_query(2 \in fails, credited,
                     update_current_saved(credited, 0 - amt, goal_id))

remove_or_move_savings(goal_id, amt, action, new_goal_id, fails) ==
    IF Len(savings_goals) = 0
    THEN [savings_goals |-> savings_goals, msg |-> "No savings goals found."]
    ELSE IF ~goal_id.num \/ ~amt.num
    THEN [savings_goals |-> savings_goals,
          msg |-> "Invalid input. Enter valid numbers."]
    ELSE IF goal_id.v \notin goal_ids(savings_goals)
    THEN [savings_goals |-> savings_goals, msg |-> "Goal not found."]
    ELSE IF exceeds_saved(amt.v, goal_row(savings_goals, goal_id.v).current_saved)
    THEN [savings_goals |-> savings_goals,
          msg |-> "Cannot remove more than the saved amount."]
    ELSE IF action = "1"
    THEN [savings_goals |-> execute_query(1 \in fails, savings_goals,
                update_current_saved(savings_goals, 0 - amt.v, goal_id.v)),
          msg |-> "Amount removed successfully."]
    ELSE IF action = "2"
    THEN IF ~new_goal_id.num
         THEN [savings_goals |-> savings_goals,
               msg |-> "Invalid input. Enter a valid goal ID."]
         ELSE [savings_goals |-> transfer_updates(savings_goals, amt.v,
                                     goal_id.v, new_goal_id.v, fails),
               msg |-> "Amount transferred successfully."]
    ELSE [savings_goals |-> savings_goals, msg |-> "Invalid option."]

\* line 924: progress = (saved / target) * 100 if target > 0 else 0, kept
\* as the fraction num / den
progress(saved, target) ==
    IF target > 0 THEN [num |-> saved * 100, den |-> target]
    ELSE [num |-> 0, den |-> 1]

\* lines: one per goal, in table order
view_goal_progress ==
    IF Len(savings_goals) = 0
    THEN [lines |-> <<>>, msg |-> "No savings goals set."]
    ELSE [lines |-> [i \in 1..Len(savings_goals) |->
                        [goal_name |-> savings_goals[i].goal_name,
                         progress |-> progress(savings_goals[i].current_saved,
                                               savings_goals[i].target_amount)]],
          msg |-> "Savings Goal Progress:"]

----------------------------------------------------------------------------
(* Category tables: id INTEGER PRIMARY KEY AUTOINCREMENT, name TEXT UNIQUE *)

category_names(rows) == {rows[i].name : i \in 1..Len(rows)}

category_ids(rows) == {rows[i].id : i \in 1..Len(rows)}

\* the name column declared without UNIQUE
unique_name_not_declared(rows, name) == FALSE

\* UNIQUE(name): the INSERT raises sqlite3.IntegrityError
unique_name_violated(rows, name) == name \in category_names(rows)

\* INSERT INTO <categories> (name) VALUES (?)
insert_category(rows, seq, name) == Append(rows, [id |-> seq + 1, name |-> name])

\* DELETE FROM <categories> WHERE id = ?
delete_category(rows, id) == SelectSeq(rows, LAMBDA r : r.id # id)

\* the COUNT taken over both ledger tables
count_category_use_any_ledger(ledger, categories, id) ==
    Len(SelectSeq(expenses \o income, LAMBDA e :
            \E i \in 1..Len(categories) :
                categories[i].id = id /\ categories[i].name = e.category))

\* SELECT COUNT(*) FROM <ledger> WHERE category =
\*     (SELECT name FROM <categories> WHERE id = ?)
count_category_use(ledger, categories, id) ==
    Len(SelectSeq(ledger, LAMBDA e :
            \E i \in 1..Len(categories) :
                categories[i].id = id /\ categories[i].name = e.category))

\* for cat in categories: if cat[0] == cat_choice: category = cat[1]
category_of_choice(categories, cat_choice) ==
    categories[CHOOSE i \in 1..Len(categories) : categories[i].id = cat_choice].name

\* INSERT INTO <ledger> (category, amount, timestamp) VALUES (?, ?, ?)
insert_entry(rows, category, amount, date) ==
    Append(rows, [id |-> Len(rows) + 1, category |-> category,
                  amount |-> amount, timestamp |-> date])

\* ... WHERE category = ? AND strftime('%m', timestamp) = ?
\*     AND strftime('%Y', timestamp) = ?
where_category_period(rows, category, month, year) ==
    SelectSeq(where_period(rows, month, year), LAMBDA r : r.category = category)

\* UPDATE <ledger> SET amount = ? WHERE id = ?
update_amount(rows, new_amount, id) ==
    [i \in 1..Len(rows) |->
        IF rows[i].id = id THEN [rows[i] EXCEPT !.amount = new_amount]
        ELSE rows[i]]

\* the test of the chosen id left out
id_not_listed_never(id, listed) == FALSE

\* valid_ids = [row[0] for row in listed]; if id not in valid_ids
id_not_listed(id, listed) == id \notin {listed[i].id : i \in 1..Len(listed)}

\* the try block asking for the month and then the year: the line printed
\* when it refuses (invalid after a ValueError), "" when both are taken
period_prompt(month, year, invalid) ==
    IF ~month.num THEN invalid
    ELSE IF ~(month.v \in 1..12) THEN "Month must be between 1 and 12."
    ELSE IF ~year.num THEN invalid
    ELSE IF year.v <= 0 THEN "Year must be positive."
    ELSE ""

\* the date loop without the strptime call
date_loop_ends_unchecked(dates) == Len(dates) >= 1

\* the while True loop asking for a date: every text but the last raises
\* ValueError in strptime, the last one is accepted
date_loop_ends(dates) ==
    /\ Len(dates) >= 1
    /\ \A j \in 1..(Len(dates) - 1) : ~strptime_ok(dates[j])
    /\ strptime_ok(dates[Len(dates)])

----------------------------------------------------------------------------
(* ExpenseManager                                                          *)

add_expense_category(category_name, fail) ==
    IF Len(strip(category_name)) = 0
    THEN [categories |-> expense_categories, seq |-> expense_cat_seq,
          msg |-> "Category name cannot be empty."]
    ELSE LET failed == fail \/ unique_name_violated(expense_categories,
                                                   strip(category_name))
         IN [categories |-> execute_query(failed, expense_categories,
                  insert_category(expense_categories, expense_cat_seq,
                                  strip(category_name))),
             seq |-> execute_query(failed, expense_cat_seq, expense_cat_seq + 1),
             msg |-> "Expense category added successfully."]

\* fails names the statements that raise sqlite3.Error: 1 the SELECT COUNT of
\* lines 141-143, after which fetch_all returns [] and "if result and
\* result[0][0] > 0" is false, 2 the DELETE
delete_expense_category(cat_id, fails) ==
    IF Len(expense_categories) = 0
    THEN [categories |-> expense_categories,
          msg |-> "No expense categories available."]
    ELSE IF ~cat_id.num
    THEN [categories |-> expense_categories,
          msg |-> "Invalid input. Enter a valid number."]
    ELSE LET result == fetch_all(1 \in fails,
                 <<count_category_use(expenses, expense_categories, cat_id.v)>>)
         IN IF Len(result) > 0 /\ result[1] > 0
            THEN [categories |-> expense_categories,
                  msg |-> "Cannot delete category: Expenses use this category."]
            ELSE [categories |-> execute_query(2 \in fails, expense_categories,
                        delete_category(expense_categories, cat_id.v)),
                  msg |-> "Expense category deleted successfully."]

\* manage_expense_menu choice "1" followed by add_expense(amt). dates are the
\* texts typed at the date prompt, category_name the one typed if the nested
\* add_expense_category runs; fails names the statements that raise
\* sqlite3.Error: 1 the INSERT of the nested add_expense_category, 2 the
\* INSERT of the entry. returns is FALSE while the date loop of lines 161-167
\* still prompts: nothing after it has run.
add_expense(amount, dates, category_name, cat_choice, fails) ==
    IF ~amount.num
    THEN [returns |-> TRUE, categories |-> expense_categories,
          seq |-> expense_cat_seq, rows |-> expenses, msg |-> "Invalid amount."]
    ELSE IF ~date_loop_ends(dates)
    THEN [returns |-> FALSE, categories |-> expense_categories,
          seq |-> expense_cat_seq, rows |-> expenses,
          msg |-> "Incorrect date format. Please try again."]
    ELSE LET nested == IF Len(expense_categories) = 0
                       THEN add_expense_category(category_name, 1 \in fails)
                       ELSE [categories |-> expense_categories,
                             seq |-> expense_cat_seq, msg |-> msg]
             categories == nested.categories
         IN IF Len(categories) = 0
            THEN [returns |-> TRUE, categories |-> categories,
                  seq |-> nested.seq, rows |-> expenses,
                  msg |-> "Unable to add expense without a category."]
            ELSE IF ~cat_choice.num
            THEN [returns |-> TRUE, categories |-> categories,
                  seq |-> nested.seq, rows |-> expenses,
                  msg |-> "Invalid input. Enter a valid number."]
            ELSE IF cat_choice.v \notin category_ids(categories)
            THEN [returns |-> TRUE, categories |-> categories,
                  seq |-> nested.seq, rows |-> expenses,
                  msg |-> "Invalid category selection."]
            ELSE [returns |-> TRUE, categories |-> categories,
                  seq |-> nested.seq,
                  rows |-> execute_query(2 \in fails, expenses,
                               insert_entry(expenses,
                                   category_of_choice(categories, cat_choice.v),
                                   amount.v, dates[Len(dates)])),
                  msg |-> "Expense added successfully."]

\* category is "" (no text) for the call without a category: the test of
\* line 215 takes it as None
view_expense(month, year, category) ==
    LET found == IF Len(category) > 0
                 THEN where_category_period(expenses, category, month, year)
                 ELSE where_period(expenses, month, year)
    IN IF Len(found) = 0
       THEN [result |-> FALSE, rows |-> found,
             msg |-> IF Len(category) = 0 THEN "No expenses found for period" ELSE "No expenses for category in period."]
       ELSE [result |-> TRUE, rows |-> found, msg |-> "Expenses:"]

view_expenses_by_category(month, year, cat_id) ==
    IF Len(expense_categories) = 0
    THEN [result |-> FALSE, rows |-> <<>>, msg |-> "No expense categories available."]
    ELSE IF ~cat_id.num
    THEN [result |-> FALSE, rows |-> <<>>,
          msg |-> "Invalid input. Enter a valid number."]
    ELSE IF cat_id.v \notin category_ids(expense_categories)
    THEN [result |-> FALSE, rows |-> <<>>, msg |-> "Invalid category selection."]
    ELSE view_expense(month, year, category_of_choice(expense_categories, cat_id.v))

update_expense_amount(month, year, expense_id, new_amount, fail) ==
    IF period_prompt(month, year, "Invalid input for month/year.") # ""
    THEN [rows |-> expenses,
          msg |-> period_prompt(month, year, "Invalid input for month/year.")]
    ELSE LET listed == where_period(expenses, month.v, year.v)
         IN IF Len(listed) = 0
            THEN [rows |-> expenses, msg |-> "No expenses available to update for this period."]
            ELSE IF ~expense_id.num \/ ~new_amount.num
            THEN [rows |-> expenses, msg |-> "Invalid input. Enter valid numbers."]
            ELSE IF id_not_listed(expense_id.v, listed)
            THEN [rows |-> expenses, msg |-> "Invalid expense ID selected."]
            ELSE [rows |-> execute_query(fail, expenses,
                               update_amount(expenses, new_amount.v, expense_id.v)),
                  msg |-> "Expense updated successfully."]

----------------------------------------------------------------------------
(* IncomeManager                                                          *)

add_income_category(category_name, fail) ==
    IF Len(strip(category_name)) = 0
    THEN [categories |-> income_categories, seq |-> income_cat_seq,
          msg |-> "Category name cannot be empty."]
    ELSE LET failed == fail \/ unique_name_violated(income_categories,
                                                   strip(category_name))
         IN [categories |-> execute_query(failed, income_categories,
                  insert_category(income_categories, income_cat_seq,
                                  strip(category_name))),
             seq |-> execute_query(failed, income_cat_seq, income_cat_seq + 1),
             msg |-> "Income category added successfully."]

\* fails names the statements that raise sqlite3.Error: 1 the SELECT COUNT of
\* lines 378-380, after which fetch_all returns [] and "if result and
\* result[0][0] > 0" is false, 2 the DELETE
delete_income_category(cat_id, fails) ==
    IF Len(income_categories) = 0
    THEN [categories |-> income_categories,
          msg |-> "No income categories available."]
    ELSE IF ~cat_id.num
    THEN [categories |-> income_categories,
          msg |-> "Invalid input. Enter a valid number."]
    ELSE LET result == fetch_all(1 \in fails,
                 <<count_category_use(income, income_categories, cat_id.v)>>)
         IN IF Len(result) > 0 /\ result[1] > 0
            THEN [categories |-> income_categories,
                  msg |-> "Cannot delete category: Income records use this category."]
            ELSE [categories |-> execute_query(2 \in fails, income_categories,
                        delete_category(income_categories, cat_id.v)),
                  msg |-> "Income category deleted successfully."]

\* manage_income_menu choice "1" followed by add_income(amt). dates are the
\* texts typed at the date prompt, category_name the one typed if the nested
\* add_income_category runs; fails names the statements that raise
\* sqlite3.Error: 1 the INSERT of the nested add_income_category, 2 the
\* INSERT of the entry. returns is FALSE while the date loop of lines 399-405
\* still prompts: nothing after it has run.
add_income(amount, dates, category_name, cat_choice, fails) ==
    IF ~amount.num
    THEN [returns |-> TRUE, categories |-> income_categories,
          seq |-> income_cat_seq, rows |-> income, msg |-> "Invalid amount."]
    ELSE IF ~date_loop_ends(dates)
    THEN [returns |-> FALSE, categories |-> income_categories,
          seq |-> income_cat_seq, rows |-> income,
          msg |-> "Incorrect date format. Please try again."]
    ELSE LET nested == IF Len(income_categories) = 0
                       THEN add_income_category(category_name, 1 \in fails)
                       ELSE [categories |-> income_categories,
                             seq |-> income_cat_seq, msg |-> msg]
             categories == nested.categories
         IN IF Len(categories) = 0
            THEN [returns |-> TRUE, categories |-> categories,
                  seq |-> nested.seq, rows |-> income,
                  msg |-> "Unable to add income without a category."]
            ELSE IF ~cat_choice.num
            THEN [returns |-> TRUE, categories |-> categories,
                  seq |-> nested.seq, rows |-> income,
                  msg |-> "Invalid input. Enter a valid number."]
            ELSE IF cat_choice.v \notin category_ids(categories)
            THEN [returns |-> TRUE, categories |-> categories,
                  seq |-> nested.seq, rows |-> income,
                  msg |-> "Invalid category selection."]
            ELSE [returns |-> TRUE, categories |-> categories,
                  seq |-> nested.seq,
                  rows |-> execute_query(2 \in fails, income,
                               insert_entry(income,
                                   category_of_choice(categories, cat_choice.v),
                                   amount.v, dates[Len(dates)])),
                  msg |-> "Income added successfully."]

\* category is "" (no text) for the call without a category: the test of
\* line 453 takes it as None
view_income(month, year, category) ==
    LET found == IF Len(category) > 0
                 THEN where_category_period(income, category, month, year)
                 ELSE where_period(income, month, year)
    IN IF Len(found) = 0
       THEN [result |-> FALSE, rows |-> found,
             msg |-> IF Len(category) = 0 THEN "No income records found for period" ELSE "No income for category in period."]
       ELSE [result |-> TRUE, rows |-> found, msg |-> "Income Records:"]

view_income_by_category(month, year, cat_id) ==
    IF Len(income_categories) = 0
    THEN [result |-> FALSE, rows |-> <<>>, msg |-> "No income categories available."]
    ELSE IF ~cat_id.num
    THEN [result |-> FALSE, rows |-> <<>>,
          msg |-> "Invalid input. Enter a valid number."]
    ELSE IF cat_id.v \notin category_ids(income_categories)
    THEN [result |-> FALSE, rows |-> <<>>, msg |-> "Invalid category selection."]
    ELSE view_income(month, year, category_of_choice(income_categories, cat_id.v))

update_income_record(month, year, income_id, new_amount, fail) ==
    IF period_prompt(month, year, "Invalid input for month/year.") # ""
    THEN [rows |-> income,
          msg |-> period_prompt(month, year, "Invalid input for month/year.")]
    ELSE LET listed == where_period(income, month.v, year.v)
         IN IF Len(listed) = 0
            THEN [rows |-> income, msg |-> "No income records available to update for this period."]
            ELSE IF ~income_id.num \/ ~new_amount.num
            THEN [rows |-> income, msg |-> "Invalid input. Enter valid numbers."]
            ELSE IF id_not_listed(income_id.v, listed)
            THEN [rows |-> income, msg |-> "Invalid income record ID selected."]
            ELSE [rows |-> execute_query(fail, income,
                               update_amount(income, new_amount.v, income_id.v)),
                  msg |-> "Income record updated successfully."]

----------------------------------------------------------------------------
(* BudgetManager. Table budget: UNIQUE(category, month, year). The id      *)
(* column is left out: it is only printed by view_all_budgets.             *)

\* ... WHERE category = ? AND month = ? AND year = ?
budget_where(rows, category, month, year) ==
    SelectSeq(rows, LAMBDA b : /\ b.category = category
                               /\ b.month = month
                               /\ b.year = year)

\* the statement of line 586 with ON CONFLICT ... DO NOTHING
upsert_budget_do_nothing(rows, category, budget_amount, month, year) ==
    IF Len(budget_where(rows, category, month, year)) > 0
    THEN rows
    ELSE Append(rows, [category |-> category, budget_amount |-> budget_amount,
                       month |-> month, year |-> year])

\* INSERT INTO budget (category, budget_amount, month, year) VALUES (?,?,?,?)
\* ON CONFLICT(category, month, year)
\* DO UPDATE SET budget_amount = excluded.budget_amount
upsert_budget(rows, category, budget_amount, month, year) ==
    IF Len(budget_where(rows, category, month, year)) > 0
    THEN [i \in 1..Len(rows) |->
            IF /\ rows[i].category = category
               /\ rows[i].month = month
               /\ rows[i].year = year
            THEN [rows[i] EXCEPT !.budget_amount = budget_amount]
            ELSE rows[i]]
    ELSE Append(rows, [category |-> category, budget_amount |-> budget_amount,
                       month |-> month, year |-> year])

set_budget(category, budget_amount, month, year, fail) ==
    [budget |-> execute_query(fail, budget,
                    upsert_budget(budget, category, budget_amount, month, year)),
     msg |-> "Budget set for category."]

\* ... WHERE category = ? AND SUBSTR(timestamp, 6, 2) = ?
\*     AND SUBSTR(timestamp, 1, 4) = ?
\* with parameters (category, f"{month:02d}", str(year))
where_category_substr(rows, category, month, year) ==
    SelectSeq(rows, LAMBDA r : /\ r.category = category
                               /\ SUBSTR(r.timestamp, 6, 2) = fmt02d(month)
                               /\ SUBSTR(r.timestamp, 1, 4) = str(year))

\* found is FALSE when the handler returns at line 617; over tells which of
\* the lines 632 and 634 is printed, by the amount it prints
view_budget_for_category(category, month, year) ==
    LET budget_result == budget_where(budget, category, month, year)
    IN IF Len(budget_result) = 0
       THEN [found |-> FALSE, budget_amount |-> 0, total_expenses |-> 0,
             over |-> FALSE, by |-> 0, msg |-> "No budget set for category."]
       ELSE LET budget_amount == budget_result[1].budget_amount
                total_expenses == SUM_amount(
                    where_category_substr(expenses, category, month, year))
            IN IF total_expenses > budget_amount
               THEN [found |-> TRUE, budget_amount |-> budget_amount,
                     total_expenses |-> total_expenses, over |-> TRUE,
                     by |-> total_expenses - budget_amount,
                     msg |-> "Over budget by:"]
               ELSE [found |-> TRUE, budget_amount |-> budget_amount,
                     total_expenses |-> total_expenses, over |-> FALSE,
                     by |-> budget_amount - total_expenses,
                     msg |-> "Under budget by:"]

view_all_budgets ==
    IF Len(budget) = 0 THEN [rows |-> <<>>, msg |-> "No budgets set."]
    ELSE [rows |-> budget, msg |-> "Budgets:"]

\* fails names the SELECTs that raise sqlite3.Error (1 income, 2 expenses):
\* fetch_all then returns [] and the [0][0] of lines 669 and 671 raises an
\* IndexError that nothing catches (fatal)
calculate_overall_budget(month, year, fails) ==
    LET income_result == fetch_all(1 \in fails,
            <<SUM_amount(where_period(income, month, year))>>)
        expense_result == fetch_all(2 \in fails,
            <<SUM_amount(where_period(expenses, month, year))>>)
    IN IF Len(income_result) = 0 \/ Len(expense_result) = 0
       THEN [fatal |-> TRUE, total_income |-> 0, total_expenses |-> 0,
             net_budget |-> 0, msg |-> "IndexError"]
       ELSE [fatal |-> FALSE, total_income |-> income_result[1],
             total_expenses |-> expense_result[1],
             net_budget |-> income_result[1] - expense_result[1],
             msg |-> "Net Budget:"]

----------------------------------------------------------------------------
(* MainMenu: the prompts of the submenus in front of the handlers          *)

\* view_expenses_menu choices "1" and "2": the last line printed
view_expenses_menu(choice, month, year, cat_id) ==
    IF choice \notin {"1", "2"} THEN "Invalid option."
    ELSE IF period_prompt(month, year, "Invalid input.") # ""
    THEN period_prompt(month, year, "Invalid input.")
    ELSE IF choice = "1" THEN view_expense(month.v, year.v, <<>>).msg
    ELSE view_expenses_by_category(month.v, year.v, cat_id).msg

\* view_income_menu choices "1" and "2": the last line printed
view_income_menu(choice, month, year, cat_id) ==
    IF choice \notin {"1", "2"} THEN "Invalid option."
    ELSE IF period_prompt(month, year, "Invalid input.") # ""
    THEN period_prompt(month, year, "Invalid input.")
    ELSE IF choice = "1" THEN view_income(month.v, year.v, <<>>).msg
    ELSE view_income_by_category(month.v, year.v, cat_id).msg

\* view_budgets_menu choice "3": the last line printed
view_budgets_overall(month, year, fails) ==
    IF period_prompt(month, year, "Invalid input for month or year.") # ""
    THEN period_prompt(month, year, "Invalid input for month or year.")
    ELSE calculate_overall_budget(month.v, year.v, fails).msg

\* manage_budgets_menu choice "1"
manage_budgets_set(cat_id, budget_amt, month, year, fail) ==
    IF Len(expense_categories) = 0
    THEN [budget |-> budget,
          msg |-> "No expense categories available. Please add one first."]
    ELSE IF ~cat_id.num
    THEN [budget |-> budget, msg |-> "Invalid input."]
    ELSE IF cat_id.v \notin category_ids(expense_categories)
    THEN [budget |-> budget, msg |-> "Invalid category selected."]
    ELSE IF ~budget_amt.num
    THEN [budget |-> budget, msg |-> "Invalid input for budget, month, or year."]
    ELSE IF period_prompt(month, year,
                          "Invalid input for budget, month, or year.") # ""
    THEN [budget |-> budget,
          msg |-> period_prompt(month, year,
                                "Invalid input for budget, month, or year.")]
    ELSE set_budget(category_of_choice(expense_categories, cat_id.v),
                    budget_amt.v, month.v, year.v, fail)

\* view_budgets_menu choice "2": the last line printed
view_budgets_by_category(cat_id, month, year) ==
    IF Len(expense_categories) = 0
    THEN "No expense categories available. Please add one first."
    ELSE IF ~cat_id.num THEN "Invalid input."
    ELSE IF cat_id.v \notin category_ids(expense_categories)
    THEN "Invalid category selected."
    ELSE IF period_prompt(month, year, "Invalid month or year.") # ""
    THEN period_prompt(month, year, "Invalid month or year.")
    ELSE view_budget_for_category(
             category_of_choice(expense_categories, cat_id.v),
             month.v, year.v).msg

\* The loops of MainMenu and display_goal_menu. menu names the loop that
\* reads the next choice: "run_menu", a submenu, "closed" once run_menu has
\* returned and close_connection has run (line 1367), "traceback" once an
\* exception that nothing catches has ended the process. Each loop maps a
\* choice to the loop that reads the next one, the line it prints, and the
\* handler it calls ("" when it calls none).
Menus ==
    {"run_menu", "manage_expenses_menu", "expense_category_management",
     "view_expenses_menu", "manage_income_menu", "income_category_management",
     "view_income_menu", "manage_budgets_menu", "view_budgets_menu",
     "display_goal_menu"}

stay(at, line) == [menu |-> at, msg |-> line, calls |-> ""]
enter(loop, header) == [menu |-> loop, msg |-> header, calls |-> ""]
call(at, handler) == [menu |-> at, msg |-> "", calls |-> handler]

\* option = int(choice), for the one-character choices of the model
int(choice) == IF IsDigit(choice) THEN Num(DigitValue[choice]) ELSE NotANumber

run_menu(choice) ==
    LET option == int(choice)
    IN IF ~option.num THEN stay("run_menu", "Please enter a valid number.")
       ELSE IF option.v = 1 THEN enter("manage_expenses_menu", "Manage Expenses:")
       ELSE IF option.v = 2 THEN enter("view_expenses_menu", "View Expenses:")
       ELSE IF option.v = 3 THEN enter("manage_income_menu", "Manage Income:")
       ELSE IF option.v = 4 THEN enter("view_income_menu", "View Income:")
       ELSE IF option.v = 5 THEN enter("manage_budgets_menu", "Manage Budgets:")
       ELSE IF option.v = 6 THEN enter("view_budgets_menu", "View Budgets:")
       ELSE IF option.v = 7 THEN enter("display_goal_menu", "Financial Goals Menu:")
       ELSE IF option.v = 8 THEN call("run_menu", "view_goal_progress")
       ELSE IF option.v = 9 THEN enter("closed", "Goodbye!")
       ELSE stay("run_menu", "Invalid option.")

\* the outer loop of manage_expenses_menu and the loop of its choice "3"
manage_expenses_menu(at, choice) ==
    IF at = "manage_expenses_menu"
    THEN IF choice = "1" THEN call(at, "add_expense")
         ELSE IF choice = "2" THEN call(at, "update_expense_amount")
         ELSE IF choice = "3"
         THEN enter("expense_category_management", "Expense Category Management:")
         ELSE IF choice = "4" THEN enter("run_menu", "Main Menu:")
         ELSE stay(at, "Invalid option.")
    ELSE IF choice = "1" THEN call(at, "add_expense_category")
         ELSE IF choice = "2" THEN call(at, "delete_expense_category")
         ELSE IF choice = "3" THEN enter("manage_expenses_menu", "Manage Expenses:")
         ELSE stay(at, "Invalid option.")

\* the loop of view_expenses_menu around the prompts of its choices
view_expenses_loop(choice) ==
    IF choice = "1" THEN call("view_expenses_menu", "view_expense")
    ELSE IF choice = "2" THEN call("view_expenses_menu", "view_expenses_by_category")
    ELSE IF choice = "3" THEN enter("run_menu", "Main Menu:")
    ELSE stay("view_expenses_menu", "Invalid option.")

\* the outer loop of manage_income_menu and the loop of its choice "3"
manage_income_menu(at, choice) ==
    IF at = "manage_income_menu"
    THEN IF choice = "1" THEN call(at, "add_income")
         ELSE IF choice = "2" THEN call(at, "update_income_record")
         ELSE IF choice = "3"
         THEN enter("income_category_management", "Income Category Management:")
         ELSE IF choice = "4" THEN enter("run_menu", "Main Menu:")
         ELSE stay(at, "Invalid option.")
    ELSE IF choice = "1" THEN call(at, "add_income_category")
         ELSE IF choice = "2" THEN call(at, "delete_income_category")
         ELSE IF choice = "3" THEN enter("manage_income_menu", "Manage Income:")
         ELSE stay(at, "Invalid option.")

\* the loop of view_income_menu around the prompts of its choices
view_income_loop(choice) ==
    IF choice = "1" THEN call("view_income_menu", "view_income")
    ELSE IF choice = "2" THEN call("view_income_menu", "view_income_by_category")
    ELSE IF choice = "3" THEN enter("run_menu", "Main Menu:")
    ELSE stay("view_income_menu", "Invalid option.")

manage_budgets_menu(choice) ==
    IF choice = "1" THEN call("manage_budgets_menu", "set_budget")
    ELSE IF choice = "2" THEN enter("run_menu", "Main Menu:")
    ELSE stay("manage_budgets_menu", "Invalid option.")

view_budgets_menu(choice) ==
    IF choice = "1" THEN call("view_budgets_menu", "view_all_budgets")
    ELSE IF choice = "2" THEN call("view_budgets_menu", "view_budget_for_category")
    ELSE IF choice = "3" THEN call("view_budgets_menu", "calculate_overall_budget")
    ELSE IF choice = "4" THEN enter("run_menu", "Main Menu:")
    ELSE stay("view_budgets_menu", "Invalid option.")

display_goal_menu(choice) ==
    LET option == int(choice)
    IN IF ~option.num THEN stay("display_goal_menu", "Invalid input. Enter a number.")
       ELSE IF option.v = 1 THEN call("display_goal_menu", "create_goal")
       ELSE IF option.v = 2 THEN call("display_goal_menu", "change_goal_amount")
       ELSE IF option.v = 3 THEN call("display_goal_menu", "add_excess_income")
       ELSE IF option.v = 4 THEN call("display_goal_menu", "remove_or_move_savings")
       ELSE IF option.v = 5 THEN enter("run_menu", "Main Menu:")
       ELSE stay("display_goal_menu", "Invalid option. Try again.")

\* the loop at which the process stands reads the choice
select_option(at, choice) ==
    IF at = "run_menu" THEN run_menu(choice)
    ELSE IF at \in {"manage_expenses_menu", "expense_category_management"}
    THEN manage_expenses_menu(at, choice)
    ELSE IF at = "view_expenses_menu" THEN view_expenses_loop(choice)
    ELSE IF at \in {"manage_income_menu", "income_category_management"}
    THEN manage_income_menu(at, choice)
    ELSE IF at = "view_income_menu" THEN view_income_loop(choice)
    ELSE IF at = "manage_budgets_menu" THEN manage_budgets_menu(choice)
    ELSE IF at = "view_budgets_menu" THEN view_budgets_menu(choice)
    ELSE display_goal_menu(choice)


----------------------------------------------------------------------------
(* Initial state: the six CREATE TABLE IF NOT EXISTS on a new database     *)

Init ==
    /\ expense_categories = <<>>
    /\ expense_cat_seq = 0
    /\ income_categories = <<>>
    /\ income_cat_seq = 0
    /\ expenses = <<>>
    /\ income = <<>>
    /\ savings_goals = <<>>
    /\ budget = <<>>
    /\ msg = "Main Menu:"
    /\ menu = "run_menu"

----------------------------------------------------------------------------
(* Inputs typed at the prompts                                             *)

DateMarch    == <<"2", "0", "2", "5", "-", "0", "3", "-", "1", "5">>
DateUnpadded == <<"2", "0", "2", "5", "-", "3", "-", "1", "5">>
DateInvalid  == <<"2", "0", "2", "5", "-", "1", "3", "-", "0", "1">>
DateShortDay == <<"2", "0", "2", "5", "-", "0", "3", "-", "5">>

NameFood   == <<"F">>
NameFoodSp == <<" ", "F", " ">>
NameRent   == <<"R">>
NameBlank  == <<" ">>

SeqsUpTo(S, n) == UNION {[1..m -> S] : m \in 1..n}

NoFail == {}

\* the savings-goal handlers over a small ledger
GoalDateScripts == {<<DateMarch>>, <<DateUnpadded>>, <<DateInvalid, DateMarch>>}
GoalAmounts == {Num(0 - 1), Num(1), Num(2), NotANumber}
GoalIds == {Num(1), Num(2), Num(3), NotANumber}
GoalEntries == {Num(0 - 1), Num(0), Num(1), Num(2)}
GoalEntryScripts == SeqsUpTo(GoalEntries, MaxEntries)
GoalMonths == {Num(3), Num(13), NotANumber}
GoalYears == {Num(2025), Num(0), NotANumber}

SavedInBounds(rows) ==
    \A i \in 1..Len(rows) : rows[i].current_saved \in (0 - MaxSaved)..MaxSaved

GoalStep(r) ==
    /\ savings_goals' = r.savings_goals
    /\ msg' = r.msg
    /\ UNCHANGED <<catVars, ledgerVars, budget, menu>>

CreateGoal ==
    \E target_amount \in {Num(5), NotANumber}, target_date \in {DateMarch, DateInvalid},
       fail \in BOOLEAN :
        /\ Len(savings_goals) < MaxGoals
        /\ GoalStep(create_goal("car", target_amount, target_date, fail))

\* the amounts are typed only when the handler gets to the prompt loop
AddExcessIncome ==
    \E month \in GoalMonths, year \in GoalYears :
        LET prompts == /\ month.num /\ year.num /\ month.v \in 1..12 /\ year.v > 0
                       /\ available_excess(month.v, year.v) > 0
                       /\ Len(savings_goals) > 0
        IN \E entries \in IF prompts THEN GoalEntryScripts ELSE {<<>>},
              fails \in IF prompts THEN {{}, {1}} ELSE {{}} :
            LET r == add_excess_income(month, year, entries, fails)
            IN r.returns /\ GoalStep(r)

\* new_goal_id is typed only after action "2"
RemoveOrMoveSavings ==
    \E goal_id \in GoalIds, amt \in GoalAmounts :
        \E r \in {remove_or_move_savings(goal_id, amt, "1", NotANumber, fail) :
                      fail \in SUBSET {1}}
              \cup {remove_or_move_savings(goal_id, amt, "2", new_goal_id, fails) :
                      new_goal_id \in GoalIds, fails \in {{}, {1}, {2}}}
              \cup {remove_or_move_savings(goal_id, amt, "3", NotANumber, {})} :
            /\ SavedInBounds(r.savings_goals)
            /\ GoalStep(r)

ExpenseStep(r) ==
    /\ r.returns
    /\ expense_categories' = r.categories
    /\ expense_cat_seq' = r.seq
    /\ expenses' = r.rows
    /\ msg' = r.msg
    /\ UNCHANGED <<income_categories, income_cat_seq, income, savings_goals, budget, menu>>

IncomeStep(r) ==
    /\ r.returns
    /\ income_categories' = r.categories
    /\ income_cat_seq' = r.seq
    /\ income' = r.rows
    /\ msg' = r.msg
    /\ UNCHANGED <<expense_categories, expense_cat_seq, expenses, savings_goals, budget, menu>>

GoalAddIncome ==
    \E amount \in {Num(2), NotANumber}, dates \in GoalDateScripts :
        /\ Len(income) < MaxIncomeRows
        /\ IncomeStep(add_income(amount, dates, NameFood, Num(1), NoFail))

GoalAddExpense ==
    \E amount \in {Num(1), NotANumber}, dates \in {<<DateMarch>>} :
        /\ Len(expenses) < MaxExpenseRows
        /\ ExpenseStep(add_expense(amount, dates, NameFood, Num(1), NoFail))

NextGoals ==
    \/ CreateGoal
    \/ AddExcessIncome
    \/ RemoveOrMoveSavings
    \/ GoalAddIncome
    \/ GoalAddExpense

SpecGoals == Init /\ [][NextGoals]_vars

\* the category handlers, with ledger entries that use the categories
CatNames == {NameFood, NameFoodSp, NameRent, NameBlank}
CatIds == {Num(1), Num(2), Num(3), NotANumber}

AddExpenseCategory ==
    \E category_name \in CatNames, fail \in BOOLEAN :
        LET r == add_expense_category(category_name, fail)
        IN /\ r.seq <= MaxCatId
           /\ expense_categories' = r.categories
           /\ expense_cat_seq' = r.seq
           /\ msg' = r.msg
           /\ UNCHANGED <<income_categories, income_cat_seq, ledgerVars, savings_goals,
                          budget, menu>>

DeleteExpenseCategory ==
    \E cat_id \in CatIds, fails \in {{}, {2}} :
        LET r == delete_expense_category(cat_id, fails)
        IN /\ expense_categories' = r.categories
           /\ msg' = r.msg
           /\ UNCHANGED <<expense_cat_seq, income_categories, income_cat_seq,
                          ledgerVars, savings_goals, budget, menu>>

AddIncomeCategory ==
    \E category_name \in CatNames, fail \in BOOLEAN :
        LET r == add_income_category(category_name, fail)
        IN /\ r.seq <= MaxCatId
           /\ income_categories' = r.categories
           /\ income_cat_seq' = r.seq
           /\ msg' = r.msg
           /\ UNCHANGED <<expense_categories, expense_cat_seq, ledgerVars, savings_goals,
                          budget, menu>>

DeleteIncomeCategory ==
    \E cat_id \in CatIds, fails \in {{}, {2}} :
        LET r == delete_income_category(cat_id, fails)
        IN /\ income_categories' = r.categories
           /\ msg' = r.msg
           /\ UNCHANGED <<income_cat_seq, expense_categories, expense_cat_seq,
                          ledgerVars, savings_goals, budget, menu>>

CatAddExpense ==
    \E amount \in {Num(1)}, dates \in {<<DateMarch>>}, category_name \in CatNames,
       cat_choice \in CatIds, fails \in SUBSET {1, 2} :
        /\ Len(expenses) < MaxExpenseRows
        /\ LET r == add_expense(amount, dates, category_name, cat_choice, fails)
           IN r.seq <= MaxCatId /\ ExpenseStep(r)

CatAddIncome ==
    \E amount \in {Num(2)}, dates \in {<<DateMarch>>}, category_name \in CatNames,
       cat_choice \in CatIds, fails \in SUBSET {1, 2} :
        /\ Len(income) < MaxIncomeRows
        /\ LET r == add_income(amount, dates, category_name, cat_choice, fails)
           IN r.seq <= MaxCatId /\ IncomeStep(r)

NextCategories ==
    \/ AddExpenseCategory
    \/ DeleteExpenseCategory
    \/ AddIncomeCategory
    \/ DeleteIncomeCategory
    \/ CatAddExpense
    \/ CatAddIncome

SpecCategories == Init /\ [][NextCategories]_vars

\* the budgets of the expense categories, with expenses to compare them to
BudgetCatIds == {Num(1), Num(2), Num(3), NotANumber}
BudgetAmounts == {Num(1), Num(3), NotANumber}
BudgetMonths == {Num(3), Num(13), NotANumber}
BudgetYears == {Num(2025), Num(0), NotANumber}

SetBudget ==
    \E cat_id \in BudgetCatIds, budget_amt \in BudgetAmounts,
       month \in BudgetMonths, year \in BudgetYears, fail \in BOOLEAN :
        LET r == manage_budgets_set(cat_id, budget_amt, month, year, fail)
        IN /\ budget' = r.budget
           /\ msg' = r.msg
           /\ UNCHANGED <<catVars, ledgerVars, savings_goals, menu>>

ViewBudgetForCategory ==
    \E cat_id \in BudgetCatIds, month \in BudgetMonths, year \in BudgetYears :
        /\ msg' = view_budgets_by_category(cat_id, month, year)
        /\ UNCHANGED <<catVars, ledgerVars, savings_goals, budget, menu>>

ViewAllBudgets ==
    /\ msg' = view_all_budgets.msg
    /\ UNCHANGED <<catVars, ledgerVars, savings_goals, budget, menu>>

BudgetAddExpense ==
    \E dates \in {<<DateMarch>>, <<DateUnpadded>>, <<DateShortDay>>},
       cat_choice \in {Num(1), Num(2)} :
        /\ Len(expenses) < MaxExpenseRows
        /\ LET r == add_expense(Num(2), dates, NameFood, cat_choice, NoFail)
           IN r.seq <= MaxCatId /\ ExpenseStep(r)

NextBudget ==
    \/ AddExpenseCategory
    \/ DeleteExpenseCategory
    \/ BudgetAddExpense
    \/ SetBudget
    \/ ViewBudgetForCategory
    \/ ViewAllBudgets

SpecBudget == Init /\ [][NextBudget]_vars

\* the two ledgers: entries, their views and their updates
LedgerDateScripts == {<<DateMarch>>, <<DateUnpadded>>, <<DateInvalid, DateMarch>>}
LedgerCatChoices == {Num(1), Num(2), NotANumber}
LedgerMonths == {Num(3), Num(13), NotANumber}
LedgerYears == {Num(2025), Num(0)}
LedgerIds == {Num(1), Num(2), Num(3), NotANumber}

LedgerAddExpense ==
    \E amount \in {Num(1), NotANumber}, dates \in LedgerDateScripts,
       category_name \in {NameFood, NameBlank}, cat_choice \in LedgerCatChoices,
       fails \in {{}, {2}} :
        /\ Len(expenses) < MaxLedgerRows
        /\ ExpenseStep(add_expense(amount, dates, category_name, cat_choice, fails))

LedgerAddIncome ==
    \E amount \in {Num(2), NotANumber}, dates \in LedgerDateScripts,
       category_name \in {NameFood, NameBlank}, cat_choice \in LedgerCatChoices,
       fails \in {{}, {2}} :
        /\ Len(income) < MaxIncomeRows
        /\ IncomeStep(add_income(amount, dates, category_name, cat_choice, fails))

UpdateExpenseAmount ==
    \E month \in LedgerMonths, year \in LedgerYears, expense_id \in LedgerIds,
       new_amount \in {Num(2), NotANumber}, fail \in BOOLEAN :
        LET r == update_expense_amount(month, year, expense_id, new_amount, fail)
        IN /\ expenses' = r.rows
           /\ msg' = r.msg
           /\ UNCHANGED <<catVars, income, savings_goals, budget, menu>>

UpdateIncomeRecord ==
    \E month \in LedgerMonths, year \in LedgerYears, income_id \in LedgerIds,
       new_amount \in {Num(1), NotANumber}, fail \in BOOLEAN :
        LET r == update_income_record(month, year, income_id, new_amount, fail)
        IN /\ income' = r.rows
           /\ msg' = r.msg
           /\ UNCHANGED <<catVars, expenses, savings_goals, budget, menu>>

ViewExpenses ==
    \E choice \in {"1", "2", "5"}, month \in LedgerMonths, year \in LedgerYears,
       cat_id \in LedgerCatChoices :
        /\ msg' = view_expenses_menu(choice, month, year, cat_id)
        /\ UNCHANGED <<catVars, ledgerVars, savings_goals, budget, menu>>

ViewIncome ==
    \E choice \in {"1", "2", "5"}, month \in LedgerMonths, year \in LedgerYears,
       cat_id \in LedgerCatChoices :
        /\ msg' = view_income_menu(choice, month, year, cat_id)
        /\ UNCHANGED <<catVars, ledgerVars, savings_goals, budget, menu>>

CalculateOverallBudget ==
    \E month \in LedgerMonths, year \in LedgerYears, fails \in {{}, {1}, {2}} :
        /\ msg' = view_budgets_overall(month, year, fails)
        /\ UNCHANGED <<catVars, ledgerVars, savings_goals, budget, menu>>

NextLedger ==
    \/ LedgerAddExpense
    \/ LedgerAddIncome
    \/ UpdateExpenseAmount
    \/ UpdateIncomeRecord
    \/ ViewExpenses
    \/ ViewIncome
    \/ CalculateOverallBudget

SpecLedger == Init /\ [][NextLedger]_vars

\* every handler but allocate, remove and transfer, on the database an
\* earlier session has left (CREATE TABLE IF NOT EXISTS keeps its rows): an
\* income of 2 in March 2025, of which 1 is saved in a goal
InitFrame ==
    /\ expense_categories = <<>>
    /\ expense_cat_seq = 0
    /\ income_categories = <<[id |-> 1, name |-> NameFood]>>
    /\ income_cat_seq = 1
    /\ expenses = <<>>
    /\ income = <<[id |-> 1, category |-> NameFood, amount |-> 2,
                   timestamp |-> DateMarch]>>
    /\ savings_goals = <<[id |-> 1, goal_name |-> "car", target_amount |-> 5,
                          current_saved |-> 1, target_date |-> DateMarch]>>
    /\ budget = <<>>
    /\ msg = "Savings updated successfully!"
    /\ menu = "run_menu"

ChangeGoalAmount ==
    \E goal_id \in {Num(1), Num(2), NotANumber}, new_amount \in {Num(0 - 5), Num(0)} :
        LET r == change_goal_amount(goal_id, new_amount, FALSE)
        IN /\ savings_goals' = r.savings_goals
           /\ msg' = r.msg
           /\ UNCHANGED <<catVars, ledgerVars, budget, menu>>

ViewGoalProgress ==
    /\ msg' = view_goal_progress.msg
    /\ UNCHANGED <<catVars, ledgerVars, savings_goals, budget, menu>>

FrameAddExpenseCategory ==
    LET r == add_expense_category(NameFood, FALSE)
    IN /\ r.seq <= MaxCatId
       /\ expense_categories' = r.categories
       /\ expense_cat_seq' = r.seq
       /\ msg' = r.msg
       /\ UNCHANGED <<income_categories, income_cat_seq, ledgerVars, savings_goals,
                      budget, menu>>

FrameDeleteExpenseCategory ==
    \E cat_id \in {Num(1), Num(2)} :
        LET r == delete_expense_category(cat_id, {})
        IN /\ expense_categories' = r.categories
           /\ msg' = r.msg
           /\ UNCHANGED <<expense_cat_seq, income_categories, income_cat_seq,
                          ledgerVars, savings_goals, budget, menu>>

FrameAddIncomeCategory ==
    LET r == add_income_category(NameRent, FALSE)
    IN /\ r.seq <= MaxCatId
       /\ income_categories' = r.categories
       /\ income_cat_seq' = r.seq
       /\ msg' = r.msg
       /\ UNCHANGED <<expense_categories, expense_cat_seq, ledgerVars, savings_goals,
                      budget, menu>>

FrameDeleteIncomeCategory ==
    \E cat_id \in {Num(1), Num(2)} :
        LET r == delete_income_category(cat_id, {})
        IN /\ income_categories' = r.categories
           /\ msg' = r.msg
           /\ UNCHANGED <<income_cat_seq, expense_categories, expense_cat_seq,
                          ledgerVars, savings_goals, budget, menu>>

\* the income table is full: add_income is taken on its refusing paths
FrameAddIncome ==
    \E amount \in {Num(2), NotANumber} :
        LET r == add_income(amount, <<DateMarch>>, NameFood, Num(3), NoFail)
        IN Len(r.rows) <= MaxIncomeRows /\ IncomeStep(r)

FrameUpdateExpenseAmount ==
    \E expense_id \in {Num(1), Num(2)} :
        LET r == update_expense_amount(Num(3), Num(2025), expense_id, Num(2), FALSE)
        IN /\ expenses' = r.rows
           /\ msg' = r.msg
           /\ UNCHANGED <<catVars, income, savings_goals, budget, menu>>

FrameUpdateIncomeRecord ==
    \E income_id \in {Num(1), Num(2)} :
        LET r == update_income_record(Num(3), Num(2025), income_id, Num(1), FALSE)
        IN /\ income' = r.rows
           /\ msg' = r.msg
           /\ UNCHANGED <<catVars, expenses, savings_goals, budget, menu>>

FrameViewExpenses ==
    \E choice \in {"1", "2"} :
        /\ msg' = view_expenses_menu(choice, Num(3), Num(2025), Num(1))
        /\ UNCHANGED <<catVars, ledgerVars, savings_goals, budget, menu>>

FrameViewIncome ==
    \E choice \in {"1", "2"} :
        /\ msg' = view_income_menu(choice, Num(3), Num(2025), Num(1))
        /\ UNCHANGED <<catVars, ledgerVars, savings_goals, budget, menu>>

FrameSetBudget ==
    \E cat_id \in {Num(1), Num(3)} :
        LET r == manage_budgets_set(cat_id, Num(1), Num(3), Num(2025), FALSE)
        IN /\ budget' = r.budget
           /\ msg' = r.msg
           /\ UNCHANGED <<catVars, ledgerVars, savings_goals, menu>>

FrameViewBudgetForCategory ==
    /\ msg' = view_budgets_by_category(Num(1), Num(3), Num(2025))
    /\ UNCHANGED <<catVars, ledgerVars, savings_goals, budget, menu>>

FrameCalculateOverallBudget ==
    /\ msg' = view_budgets_overall(Num(3), Num(2025), {})
    /\ UNCHANGED <<catVars, ledgerVars, savings_goals, budget, menu>>

NextFrame ==
    \/ CreateGoal
    \/ ChangeGoalAmount
    \/ ViewGoalProgress
    \/ FrameAddExpenseCategory
    \/ FrameDeleteExpenseCategory
    \/ FrameAddIncomeCategory
    \/ FrameDeleteIncomeCategory
    \/ GoalAddExpense
    \/ FrameAddIncome
    \/ FrameUpdateExpenseAmount
    \/ FrameUpdateIncomeRecord
    \/ FrameViewExpenses
    \/ FrameViewIncome
    \/ FrameSetBudget
    \/ FrameViewBudgetForCategory
    \/ ViewAllBudgets
    \/ FrameCalculateOverallBudget

SpecFrame == InitFrame /\ [][NextFrame]_vars

----------------------------------------------------------------------------
(* SpecMenu: the walk through the menu loops. The specifications above     *)
(* take a handler together with the walk from the main menu to it and      *)
(* back; here every step is one choice read by the loop at which the       *)
(* process stands, and a handler runs only from the loop that calls it.    *)

tables == <<catVars, ledgerVars, savings_goals, budget>>

MenuChoices == {"0", "1", "2", "3", "4", "5", "6", "7", "8", "9", "x"}

\* the loop that reads the next choice calls the handler for some choice
Calls(handler) ==
    /\ menu \in Menus
    /\ \E choice \in MenuChoices : select_option(menu, choice).calls = handler

\* a choice that calls no handler: a submenu, a return, option 9, or a
\* choice the loop does not know
SelectOption ==
    /\ menu \in Menus
    /\ \E choice \in MenuChoices :
        LET r == select_option(menu, choice)
        IN /\ r.calls = ""
           /\ menu' = r.menu
           /\ msg' = r.msg
           /\ UNCHANGED tables

MenuAddExpenseCategory ==
    /\ Calls("add_expense_category")
    /\ AddExpenseCategory

\* fails: 1 the SELECT COUNT raises sqlite3.Error, 2 the DELETE does
MenuDeleteExpenseCategory ==
    /\ Calls("delete_expense_category")
    /\ \E cat_id \in CatIds, fails \in SUBSET {1, 2} :
        LET r == delete_expense_category(cat_id, fails)
        IN /\ expense_categories' = r.categories
           /\ msg' = r.msg
           /\ UNCHANGED <<expense_cat_seq, income_categories, income_cat_seq,
                          ledgerVars, savings_goals, budget, menu>>

MenuAddExpense ==
    /\ Calls("add_expense")
    /\ CatAddExpense

MenuCreateGoal ==
    /\ Calls("create_goal")
    /\ CreateGoal

MenuViewGoalProgress ==
    /\ Calls("view_goal_progress")
    /\ ViewGoalProgress

\* view_budgets_menu choice "3": the IndexError of lines 669 / 671 leaves
\* calculate_overall_budget, view_budgets_menu and run_menu, and line 1367
\* is never reached
MenuCalculateOverallBudget ==
    /\ Calls("calculate_overall_budget")
    /\ \E month \in {Num(3), NotANumber}, year \in {Num(2025)},
          fails \in {{}, {1}, {2}} :
        LET invalid == period_prompt(month, year, "Invalid input for month or year.")
            r == calculate_overall_budget(month.v, year.v, fails)
        IN IF invalid # ""
           THEN msg' = invalid /\ menu' = menu
           ELSE /\ msg' = r.msg
                /\ menu' = IF r.fatal THEN "traceback" ELSE menu
    /\ UNCHANGED tables

NextMenu ==
    \/ SelectOption
    \/ MenuAddExpenseCategory
    \/ MenuDeleteExpenseCategory
    \/ MenuAddExpense
    \/ MenuCreateGoal
    \/ MenuViewGoalProgress
    \/ MenuCalculateOverallBudget

SpecMenu == Init /\ [][NextMenu]_vars

Next ==
    NextGoals \/ NextCategories \/ NextBudget \/ NextLedger \/ NextFrame \/ NextMenu

Spec == Init /\ [][Next]_vars

----------------------------------------------------------------------------
(* Properties of the savings goals (SpecGoals). A property of a handler is *)
(* stated of its result for every input, in every reachable state.         *)

current_saved(rows, id) == goal_row(rows, id).current_saved

PropIds == {1, 2, 3}
PropAmounts == {0 - 1, 1, 2}
PropFails == {{}, {1}, {2}}
PropPeriods == {<<3, 2025>>, <<4, 2025>>}

\* C1: every savings goal's current_saved is >= 0 in every reachable state.
C1_SavedNeverNegative ==
    \A i \in 1..Len(savings_goals) : savings_goals[i].current_saved >= 0

\* C2: a transfer of X from goal g1 to a different existing goal g2, both
\* statements executed, takes exactly X from g1, adds exactly X to g2 and
\* leaves the sum of current_saved over all goals as it was.
C2_TransferConserves ==
    \A g1 \in PropIds, g2 \in PropIds, X \in PropAmounts :
        LET r == remove_or_move_savings(Num(g1), Num(X), "2", Num(g2), {})
        IN ( /\ g1 # g2
             /\ g1 \in goal_ids(savings_goals)
             /\ g2 \in goal_ids(savings_goals)
             /\ r.msg = "Amount transferred successfully." )
           => /\ current_saved(r.savings_goals, g1) = current_saved(savings_goals, g1) - X
              /\ current_saved(r.savings_goals, g2) = current_saved(savings_goals, g2) + X
              /\ SUM_current_saved(r.savings_goals) = SUM_current_saved(savings_goals)

\* a transfer of 1 has left 1 in each of two goals, out of an income of 2
C2_Witness ==
    /\ msg = "Amount transferred successfully."
    /\ Len(savings_goals) = 2
    /\ savings_goals[1].current_saved = 1
    /\ savings_goals[2].current_saved = 1

\* C3: a transfer is all-or-nothing: whichever of its two statements fails,
\* the handler leaves either both the debit and the credit applied or
\* neither.
C3_TransferAllOrNothing ==
    \A g1 \in PropIds, g2 \in PropIds, X \in PropAmounts, fails \in PropFails :
        LET r == remove_or_move_savings(Num(g1), Num(X), "2", Num(g2), fails)
        IN ( /\ g1 # g2
             /\ g1 \in goal_ids(savings_goals)
             /\ g2 \in goal_ids(savings_goals) )
           => \/ r.savings_goals = savings_goals
              \/ /\ current_saved(r.savings_goals, g1) = current_saved(savings_goals, g1) - X
                 /\ current_saved(r.savings_goals, g2) = current_saved(savings_goals, g2) + X

\* C4: a transfer whose destination is the source goal, or is no goal's id,
\* is rejected and changes no goal's current_saved.
C4_BadDestinationRejected ==
    \A g1 \in PropIds, g2 \in PropIds, X \in PropAmounts :
        LET r == remove_or_move_savings(Num(g1), Num(X), "2", Num(g2), {})
        IN ( /\ g1 \in goal_ids(savings_goals)
             /\ (g2 = g1 \/ g2 \notin goal_ids(savings_goals)) )
           => /\ r.savings_goals = savings_goals
              /\ r.msg # "Amount transferred successfully."

\* C5: remove and transfer with an amount greater than the selected goal's
\* current_saved are refused with the message of line 877 and change no goal.
C5_RemovalBound ==
    \A g1 \in PropIds, X \in PropAmounts :
        ( /\ g1 \in goal_ids(savings_goals)
          /\ X > current_saved(savings_goals, g1) )
        => \A action \in {"1", "2"}, g2 \in GoalIds, fails \in PropFails :
              LET r == remove_or_move_savings(Num(g1), Num(X), action, g2, fails)
              IN /\ r.msg = "Cannot remove more than the saved amount."
                 /\ r.savings_goals = savings_goals

\* a removal has just been refused for a goal that holds 1
C5_Witness ==
    /\ msg = "Cannot remove more than the saved amount."
    /\ \E i \in 1..Len(savings_goals) : savings_goals[i].current_saved = 1

----------------------------------------------------------------------------
(* Properties of the allocation of excess income. The batch is described   *)
(* here as the specification words it: entries are taken in order against  *)
(* one remaining-excess counter.                                           *)

RECURSIVE RemainingBefore(_, _, _)
EntryAccepted(entries, i, E) ==
    /\ entries[i].num
    /\ 0 <= entries[i].v
    /\ entries[i].v <= RemainingBefore(entries, i, E)

RemainingBefore(entries, i, E) ==
    IF i = 1 THEN E
    ELSE IF EntryAccepted(entries, i - 1, E)
         THEN RemainingBefore(entries, i - 1, E) - entries[i - 1].v
         ELSE RemainingBefore(entries, i - 1, E)

AcceptedEntries(entries, E) == {i \in 1..Len(entries) : EntryAccepted(entries, i, E)}

\* the goal (by position) an entry is typed for: each accepted entry moves
\* the prompt to the next goal
GoalOfEntry(entries, i, E) ==
    1 + Cardinality({j \in AcceptedEntries(entries, E) : j < i})

\* the amount accepted for the k-th goal, 0 if none
AcceptedAmount(entries, k, E) ==
    LET hits == {i \in AcceptedEntries(entries, E) : GoalOfEntry(entries, i, E) = k}
    IN IF hits = {} THEN 0 ELSE entries[CHOOSE i \in hits : TRUE].v

RECURSIVE SumAccepted(_, _, _)
SumAccepted(entries, i, E) ==
    IF i = 0 THEN 0
    ELSE SumAccepted(entries, i - 1, E)
         + (IF EntryAccepted(entries, i, E) THEN entries[i].v ELSE 0)

\* the batch is complete when every goal has an accepted entry and the last
\* entry typed is the one accepted for the last goal
BatchComplete(entries, n, E) ==
    /\ Cardinality(AcceptedEntries(entries, E)) = n
    /\ Len(entries) \in AcceptedEntries(entries, E)

\* C6: after allocate, every goal's current_saved has grown by exactly the
\* amount accepted for it, and by nothing when its accepted amount is zero or
\* its entries were refused (an entry above the available excess included).
C6_AllocationExact ==
    \A p \in PropPeriods :
        LET E == available_excess(p[1], p[2])
        IN E > 0 =>
           \A entries \in GoalEntryScripts :
              LET r == add_excess_income(Num(p[1]), Num(p[2]), entries, {})
              IN (r.returns /\ r.msg = "Savings updated successfully!")
                 => \A k \in 1..Len(savings_goals) :
                       r.savings_goals[k].current_saved =
                           savings_goals[k].current_saved
                             + AcceptedAmount(entries, k, E)

\* both goals were given a positive amount out of one pool of 2
C6_Witness ==
    /\ msg = "Savings updated successfully!"
    /\ Len(savings_goals) = 2
    /\ savings_goals[1].current_saved = 1
    /\ savings_goals[2].current_saved = 1
    /\ Len(expenses) = 0

\* C7: the prompt loops of one batch accept an entry iff 0 <= amount <=
\* remaining, with remaining starting at the available excess and going down
\* by each accepted amount only; refused entries do not end the batch; the
\* accepted amounts never add up to more than the available excess.
C7_SharedRunningCounter ==
    \A p \in PropPeriods :
        LET E == available_excess(p[1], p[2])
        IN (E > 0 /\ Len(savings_goals) > 0) =>
           \A entries \in GoalEntryScripts :
              LET run == allocation_loop(savings_goals, entries, 1, 1, E, <<>>)
                  r == add_excess_income(Num(p[1]), Num(p[2]), entries, {})
              IN /\ r.returns <=> BatchComplete(entries, Len(savings_goals), E)
                 /\ r.returns =>
                      /\ run.available = E - SumAccepted(entries, Len(entries), E)
                      /\ run.available >= 0
                      /\ SUM_current_saved(r.savings_goals)
                           - SUM_current_saved(savings_goals) <= E
                      /\ SUM_current_saved(r.savings_goals)
                           - SUM_current_saved(savings_goals)
                           = SumAccepted(entries, Len(entries), E)

\* two goals and an excess of 2 to share between them
C7_Witness ==
    /\ Len(savings_goals) = 2
    /\ available_excess(3, 2025) = 2

\* C8: with an available excess <= 0 allocate accepts nothing and changes no
\* goal.
C8_NoExcessNoAllocation ==
    \A p \in PropPeriods :
        available_excess(p[1], p[2]) <= 0 =>
           \A entries \in GoalEntryScripts \cup {<<>>}, fails \in {{}, {1}} :
              LET r == add_excess_income(Num(p[1]), Num(p[2]), entries, fails)
              IN /\ r.returns
                 /\ r.savings_goals = savings_goals
                 /\ r.msg = "No excess income available for savings."

\* all of the period's net income is already saved
C8_Witness ==
    /\ msg = "No excess income available for savings."
    /\ Len(income) = 1
    /\ SUM_current_saved(savings_goals) = 2
    /\ C1_SavedNeverNegative

\* the rows whose date, as strptime read it when the row was added, falls in
\* the month and year
DatedIn(rows, month, year) ==
    SelectSeq(rows, LAMBDA r : /\ strptime_month(r.timestamp) = month
                               /\ strptime_year(r.timestamp) = year)

\* C9: available_excess(month, year) is the income dated in that month and
\* year, minus the expenses dated in it, minus current_saved of all goals.
C9_ExcessFormula ==
    \A p \in PropPeriods :
        available_excess(p[1], p[2]) =
            SUM_amount(DatedIn(income, p[1], p[2]))
              - SUM_amount(DatedIn(expenses, p[1], p[2]))
              - SUM_current_saved(savings_goals)

----------------------------------------------------------------------------
(* Properties of the categories (SpecCategories)                           *)

NamesUnique(rows) ==
    \A i \in 1..Len(rows), j \in 1..Len(rows) :
        rows[i].name = rows[j].name => i = j

\* C10: no two expense categories have the same name and no two income
\* categories have the same name; adding a name that is present, whether
\* from the category menu or from the nested prompt of add_expense and
\* add_income, inserts no row.
C10_CategoryNamesUnique ==
    /\ NamesUnique(expense_categories)
    /\ NamesUnique(income_categories)
    /\ \A category_name \in CatNames :
          /\ strip(category_name) \in category_names(expense_categories)
                => add_expense_category(category_name, FALSE).categories
                      = expense_categories
          /\ strip(category_name) \in category_names(income_categories)
                => add_income_category(category_name, FALSE).categories
                      = income_categories

\* two categories are present and one more has just been asked for
C10_Witness ==
    /\ Len(expense_categories) = 2
    /\ expense_cat_seq = MaxCatId
    /\ msg = "Expense category added successfully."

CreateSuccessMessages ==
    {"Expense category added successfully.", "Income category added successfully."}

\* C11: adding a category whose name is empty, blank or already present in
\* its table ends with a line that is not the success line, and leaves the
\* table as it was.
C11_CreateFailureOutcome ==
    \A category_name \in CatNames :
        /\ ( \/ Len(strip(category_name)) = 0
             \/ strip(category_name) \in category_names(expense_categories) )
              => LET r == add_expense_category(category_name, FALSE)
                 IN /\ r.msg \notin CreateSuccessMessages
                    /\ r.categories = expense_categories
        /\ ( \/ Len(strip(category_name)) = 0
             \/ strip(category_name) \in category_names(income_categories) )
              => LET r == add_income_category(category_name, FALSE)
                 IN /\ r.msg \notin CreateSuccessMessages
                    /\ r.categories = income_categories

\* the ledger has an entry whose category text is name
CategoryUsed(ledger, name) == \E i \in 1..Len(ledger) : ledger[i].category = name

\* after is before without the row of id
RowRemoved(before, after, id) ==
    /\ Len(after) = Len(before) - 1
    /\ category_ids(after) = category_ids(before) \ {id}
    /\ \A i \in 1..Len(after) : \E j \in 1..Len(before) : after[i] = before[j]

----------------------------------------------------------------------------
(* Properties of the budgets (SpecBudget)                                  *)

PropCategories == {NameFood, NameRent}
PropBudgetAmounts == {1, 3}

SameTriple(b, category, month, year) ==
    b.category = category /\ b.month = month /\ b.year = year

BudgetTriplesUnique ==
    \A i \in 1..Len(budget), j \in 1..Len(budget) :
        SameTriple(budget[i], budget[j].category, budget[j].month, budget[j].year)
            => i = j

\* C13: the budget table never holds two rows of one (category, month, year);
\* a set_budget that executes leaves exactly one row of its triple, carrying
\* the amount just given, and every row of another triple as it was.
C13_BudgetUpsert ==
    /\ BudgetTriplesUnique
    /\ \A c \in PropCategories, amount \in PropBudgetAmounts, p \in PropPeriods :
          LET r == set_budget(c, amount, p[1], p[2], FALSE)
              hit == {i \in 1..Len(r.budget) : SameTriple(r.budget[i], c, p[1], p[2])}
              old == {i \in 1..Len(budget) : SameTriple(budget[i], c, p[1], p[2])}
          IN /\ Cardinality(hit) = 1
             /\ \A i \in hit : r.budget[i].budget_amount = amount
             /\ Len(r.budget) = Len(budget) + (IF old = {} THEN 1 ELSE 0)
             /\ \A i \in (1..Len(budget)) \ old : r.budget[i] = budget[i]

\* a budget has just been set, and two triples hold different amounts
C13_Witness ==
    /\ msg = "Budget set for category."
    /\ Len(budget) = 2
    /\ budget[1].budget_amount = 3
    /\ budget[2].budget_amount = 1

\* C14: evaluate reports not-found iff the triple has no budget row; else
\* budgeted is the row's amount, spent the sum of the expenses of that
\* category dated in that month and year, and the difference printed is
\* spent - budgeted (as "over by" when positive, "under by" its opposite).
C14_EvaluateFormula ==
    \A c \in PropCategories, p \in PropPeriods :
        LET r == view_budget_for_category(c, p[1], p[2])
            rows == {i \in 1..Len(budget) : SameTriple(budget[i], c, p[1], p[2])}
            spent == SUM_amount(SelectSeq(DatedIn(expenses, p[1], p[2]),
                                          LAMBDA e : e.category = c))
        IN IF rows = {}
           THEN ~r.found
           ELSE /\ r.found
                /\ \A i \in rows : r.budget_amount = budget[i].budget_amount
                /\ r.total_expenses = spent
                /\ (IF r.over THEN r.by ELSE 0 - r.by) = spent - r.budget_amount

----------------------------------------------------------------------------
(* Properties of the ledgers (SpecLedger)                                  *)

\* C15: net_for_period reports as income the sum of the income entries dated
\* in the month and year, as expenses the sum of the expense entries dated
\* in it (0 without entries), and as net their difference.
C15_NetForPeriod ==
    \A p \in PropPeriods :
        LET r == calculate_overall_budget(p[1], p[2], {})
        IN /\ ~r.fatal
           /\ r.total_income = SUM_amount(DatedIn(income, p[1], p[2]))
           /\ r.total_expenses = SUM_amount(DatedIn(expenses, p[1], p[2]))
           /\ r.net_budget = r.total_income - r.total_expenses

\* the entries dated in the month and year that carry the category, or any
\* category when none is given
Matching(rows, month, year, category) ==
    SelectSeq(DatedIn(rows, month, year),
              LAMBDA e : Len(category) = 0 \/ e.category = category)

PropViewCategories == {<<>>, NameFood, NameRent}

\* C16: a view returns exactly the stored entries of its kind dated in the
\* month and year and, with a category given, carrying that category; it
\* returns no entry, and no error, when none matches.
C16_ViewFilter ==
    \A p \in PropPeriods, c \in PropViewCategories :
        /\ view_expense(p[1], p[2], c).rows = Matching(expenses, p[1], p[2], c)
        /\ view_income(p[1], p[2], c).rows = Matching(income, p[1], p[2], c)

PropDateScripts ==
    {<<DateMarch>>, <<DateUnpadded>>, <<DateInvalid>>, <<DateInvalid, DateMarch>>,
     <<DateInvalid, DateInvalid>>, <<DateMarch, DateInvalid>>}
PropNames == {NameFood, NameBlank}

\* after is before with one more row
OneEntryAdded(before, after, category, amount, date) ==
    /\ Len(after) = Len(before) + 1
    /\ SubSeq(after, 1, Len(before)) = before
    /\ after[Len(after)].category = category
    /\ after[Len(after)].amount = amount
    /\ after[Len(after)].timestamp = date

\* what C17 asks of one run of add, r its result, before the ledger it
\* started from
AddValidated(r, before, dates, cat_choice) ==
    LET date_ok == strptime_ok(dates[Len(dates)])
        id_ok == cat_choice.num /\ cat_choice.v \in category_ids(r.categories)
    IN /\ (~date_ok \/ ~id_ok) => r.rows = before
       /\ (r.returns /\ id_ok)
             => OneEntryAdded(before, r.rows,
                    category_of_choice(r.categories, cat_choice.v),
                    1, dates[Len(dates)])

\* C17: add inserts no entry while the date typed does not parse or when the
\* category id is not one of the kind's categories; with both valid (and the
\* INSERT executed) it inserts exactly one entry, carrying the name that is
\* registered under the id.
C17_AddValidation ==
    \A dates \in PropDateScripts, category_name \in PropNames,
       cat_choice \in LedgerCatChoices :
        /\ AddValidated(add_expense(Num(1), dates, category_name, cat_choice, {}),
                        expenses, dates, cat_choice)
        /\ AddValidated(add_income(Num(1), dates, category_name, cat_choice, {}),
                        income, dates, cat_choice)

\* an expense was added under the category registered as id 1
C17_Witness ==
    /\ msg = "Expense added successfully."
    /\ Len(expenses) = 1
    /\ Len(expense_categories) = 1
    /\ expenses[1].category = expense_categories[1].name

NotFoundMessages ==
    {"No expenses available to update for this period.",
     "Invalid expense ID selected.",
     "No income records available to update for this period.",
     "Invalid income record ID selected."}

\* what C18 asks of one run of update_amount, r its result, before the
\* ledger it started from
OnlyAmountChanged(r, before, id, new_amount, done, fail) ==
    /\ id \notin {before[i].id : i \in 1..Len(before)}
          => r.rows = before /\ r.msg \in NotFoundMessages
    /\ Len(r.rows) = Len(before)
    /\ \A i \in 1..Len(before) :
          IF before[i].id = id
          THEN /\ r.rows[i].id = id
               /\ r.rows[i].category = before[i].category
               /\ r.rows[i].timestamp = before[i].timestamp
               /\ (r.msg = done /\ ~fail) => r.rows[i].amount = new_amount
               /\ r.msg # done => r.rows[i].amount = before[i].amount
          ELSE r.rows[i] = before[i]

PropLedgerIds == {1, 2, 3}

\* C18: update_amount with an id that no entry of the kind has reports
\* not-found and changes nothing; when it succeeds only the amount of that
\* entry changes: its category and date and all other entries stay.
C18_UpdateAmount ==
    \A p \in PropPeriods, id \in PropLedgerIds, fail \in BOOLEAN :
        /\ OnlyAmountChanged(
              update_expense_amount(Num(p[1]), Num(p[2]), Num(id), Num(3), fail),
              expenses, id, 3, "Expense updated successfully.", fail)
        /\ OnlyAmountChanged(
              update_income_record(Num(p[1]), Num(p[2]), Num(id), Num(3), fail),
              income, id, 3, "Income record updated successfully.", fail)

\* the first of two expenses has been given a new amount
C18_Witness ==
    /\ msg = "Expense updated successfully."
    /\ Len(expenses) = 2
    /\ expenses[1].amount = 2
    /\ expenses[2].amount = 1

----------------------------------------------------------------------------
(* Properties of the goals under the other handlers (SpecFrame)            *)

\* C19: the progress shown for a goal is 0 when its target_amount is 0 and
\* 100 * current_saved / target_amount for every other target_amount.
C19_ProgressFormula ==
    \A i \in 1..Len(savings_goals) :
        LET shown == view_goal_progress.lines[i].progress
            target == savings_goals[i].target_amount
        IN IF target = 0
           THEN shown.num = 0
           ELSE shown.num * target = 100 * savings_goals[i].current_saved * shown.den

\* C20: a step of any handler other than allocate, remove and transfer
\* deletes no goal, leaves current_saved of every existing goal as it was,
\* and gives a goal it creates current_saved = 0.
C20_SavedFrame ==
    [][ /\ Len(savings_goals') >= Len(savings_goals)
        /\ \A i \in 1..Len(savings_goals) :
              /\ savings_goals'[i].id = savings_goals[i].id
              /\ savings_goals'[i].current_saved = savings_goals[i].current_saved
        /\ \A i \in (Len(savings_goals) + 1)..Len(savings_goals') :
              savings_goals'[i].current_saved = 0 ]_vars

\* a second goal was created, the target of the first changed, an expense
\* and a budget entered, and the first goal still holds what it held
C20_Witness ==
    /\ Len(savings_goals) = 2
    /\ savings_goals[1].target_amount = 0 - 5
    /\ savings_goals[1].current_saved = 1
    /\ savings_goals[2].current_saved = 0
    /\ Len(expenses) = 1
    /\ Len(budget) = 1

----------------------------------------------------------------------------
(* Properties of the menu loops and of the failures (SpecMenu)             *)

\* C21: no failure ends the process: after an operation with a malformed
\* input, an unknown id, a blocked deletion or a store failure the process
\* stands at a menu loop that reads the next choice, and a handler whose
\* SELECT has failed leaves the tables as they were.
C21_NoFatalFailure ==
    /\ menu \in Menus \cup {"closed"}
    /\ \A id \in PropIds, fails \in {{1}, {1, 2}} :
          delete_expense_category(Num(id), fails).categories = expense_categories

\* C22: in every state reached by creating and deleting categories and
\* adding and updating entries, the category of every expense is the name
\* of an existing expense category, and the category of every income entry
\* the name of an existing income category.
C22_LedgerCategoriesExist ==
    /\ \A i \in 1..Len(expenses) :
          expenses[i].category \in category_names(expense_categories)
    /\ \A i \in 1..Len(income) :
          income[i].category \in category_names(income_categories)

\* at most n choices that call no handler lead from the loop to the main menu
RECURSIVE ReturnsToMain(_, _)
ReturnsToMain(at, n) ==
    \/ at = "run_menu"
    \/ /\ n > 0
       /\ \E choice \in MenuChoices :
             LET r == select_option(at, choice)
             IN r.calls = "" /\ r.menu # at /\ ReturnsToMain(r.menu, n - 1)

\* the choices that no loop of the program knows
Unrecognised == {"0", "x"}

\* the process has ended
Terminated == menu \notin Menus

\* C26: the process ends only through option 9 of the main menu, with the
\* connection closed; while it runs, return options lead from the loop at
\* which it stands to the main menu, where option 9 ends it, and a choice
\* the loop does not know leaves it at the same loop.
C26_TerminationOnlyByQuit ==
    /\ [](~Terminated =>
            /\ ReturnsToMain(menu, 2)
            /\ select_option("run_menu", "9").menu = "closed"
            /\ \A choice \in Unrecognised :
                  /\ select_option(menu, choice).menu = menu
                  /\ select_option(menu, choice).calls = "")
    /\ [][(~Terminated /\ Terminated') =>
            /\ menu = "run_menu"
            /\ menu' = "closed"
            /\ msg' = "Goodbye!"]_vars

----------------------------------------------------------------------------
(* Further properties of the budgets (SpecBudget)                          *)

\* C23: in every reachable state the category of every budget row is the
\* name of an existing expense category.
C23_BudgetCategoriesExist ==
    \A i \in 1..Len(budget) :
        budget[i].category \in category_names(expense_categories)

\* C25: for every category, month and year with a budget row, the spent
\* total of view_budget_for_category is the sum of the expenses that
\* view_expense lists for the month, the year and the category, whatever
\* dates add_expense has accepted.
C25_SpentEqualsListed ==
    \A c \in PropCategories, p \in PropPeriods :
        LET r == view_budget_for_category(c, p[1], p[2])
        IN r.found =>
              r.total_expenses = SUM_amount(view_expense(p[1], p[2], c).rows)

----------------------------------------------------------------------------
(* Further properties of the savings goals (SpecGoals)                     *)

\* C24: for every amount that can be typed, a remove does not increase the
\* current_saved of the selected goal, and neither a remove nor a transfer
\* increases the sum of current_saved over all goals (all statements
\* executed).
C24_RemoveTransferNeverIncrease ==
    \A g1 \in PropIds, X \in PropAmounts :
        LET removed == remove_or_move_savings(Num(g1), Num(X), "1",
                                              NotANumber, {}).savings_goals
        IN /\ SUM_current_saved(removed) <= SUM_current_saved(savings_goals)
           /\ g1 \in goal_ids(savings_goals)
                => current_saved(removed, g1) <= current_saved(savings_goals, g1)
           /\ \A g2 \in PropIds :
                 SUM_current_saved(remove_or_move_savings(Num(g1), Num(X), "2",
                                       Num(g2), {}).savings_goals)
                    <= SUM_current_saved(savings_goals)

====
